---- MODULE Spec2Model ----
(***************************************************************************)
(* Deutschlandkarte - Gemeinden & Ortsteile.                               *)
(*                                                                         *)
(* A model of the repository's three programs:                             *)
(*   - the presentation application, in its two variants (the chunked     *)
(*     Leaflet variant and the single-file MapLibre variant);              *)
(*   - the data splitter (one file per 2-character identifier prefix);     *)
(*   - the colour mappings of both variants.                               *)
(*                                                                         *)
(* JavaScript values are represented as follows.                           *)
(*   string            a sequence of characters, each a TLA+ string; the   *)
(*                     non-ASCII characters carry their entity names       *)
(*                     ("uuml" is U+00FC, "szlig" is U+00DF, "U+0308" is   *)
(*                     the combining diaeresis)                            *)
(*   number | null     None (null or undefined) or Some(n)                 *)
(*   density           None or Some(<<pop, area>>), the exact quotient     *)
(*   FC | null         [loaded |-> FALSE, ...] is null                     *)
(***************************************************************************)
EXTENDS Integers, Sequences, FiniteSets, Bags, TLC

None == <<>>
Some(x) == <<x>>
IsSome(o) == o # <<>>
Val(o) == o[1]

(***************************************************************************)
(* Bounds of the model.                                                    *)
(***************************************************************************)
\* number of per-state chunk files requested by the Leaflet variant (the
\* code requests 16, "01".."16"; the model requests the first NumChunks)
NumChunks == 2
\* longest feature collection given to the splitter
MaxSplitLen == 3

(***************************************************************************)
(* Generic sequence helpers.                                               *)
(***************************************************************************)
RECURSIVE Flatten(_)
Flatten(ss) == IF ss = <<>> THEN <<>> ELSE Head(ss) \o Flatten(Tail(ss))

SeqRange(s) == {s[i] : i \in DOMAIN s}

RECURSIVE SeqToBag(_)
SeqToBag(s) ==
  IF s = <<>> THEN EmptyBag ELSE SetToBag({Head(s)}) (+) SeqToBag(Tail(s))

(***************************************************************************)
(* Strings.                                                                *)
(***************************************************************************)
\* String.prototype.toLowerCase, per character
LowerChar(c) ==
  CASE c = "M" -> "m"
    [] c = "U" -> "u"
    [] c = "A" -> "a"
    [] c = "H" -> "h"
    [] c = "S" -> "s"
    [] c = "Uuml" -> "uuml"
    [] OTHER -> c

ToLowerCase(s) == [i \in DOMAIN s |-> LowerChar(s[i])]

\* canonical decomposition of one character (normalize('NFD'))
DecomposeChar(c) ==
  CASE c = "uuml" -> <<"u", "U+0308">>
    [] c = "Uuml" -> <<"U", "U+0308">>
    [] c = "auml" -> <<"a", "U+0308">>
    [] c = "ouml" -> <<"o", "U+0308">>
    [] OTHER -> <<c>>

NormalizeNFD(s) == Flatten([i \in DOMAIN s |-> DecomposeChar(s[i])])

\* \p{Diacritic}
IsDiacritic(c) == c = "U+0308"

\* .replace(/\p{Diacritic}/gu, '')
StripDiacritics(s) == SelectSeq(s, LAMBDA c : ~IsDiacritic(c))

\* .replace(/ae-umlaut/g,'ae') ... .replace(/sharp-s/g,'ss'), per character
TransliterateChar(c) ==
  CASE c = "auml" -> <<"a", "e">>
    [] c = "ouml" -> <<"o", "e">>
    [] c = "uuml" -> <<"u", "e">>
    [] c = "szlig" -> <<"s", "s">>
    [] OTHER -> <<c>>

Transliterate(s) == Flatten([i \in DOMAIN s |-> TransliterateChar(s[i])])

\* norm of the Leaflet variant's list filter
Norm(s) == Transliterate(StripDiacritics(NormalizeNFD(ToLowerCase(s))))

\* String.prototype.includes
Includes(hay, needle) ==
  \E i \in 0..Len(hay) :
    /\ i + Len(needle) <= Len(hay)
    /\ SubSeq(hay, i + 1, i + Len(needle)) = needle

IsSpace(c) == c = " "

RECURSIVE TrimStart(_)
TrimStart(s) == IF s # <<>> /\ IsSpace(Head(s)) THEN TrimStart(Tail(s)) ELSE s

RECURSIVE TrimEnd(_)
TrimEnd(s) ==
  IF s # <<>> /\ IsSpace(s[Len(s)]) THEN TrimEnd(SubSeq(s, 1, Len(s) - 1)) ELSE s

\* String.prototype.trim
Trim(s) == TrimEnd(TrimStart(s))

(***************************************************************************)
(* Features (FProps / FeatureProps; the geometry is opaque and left out).  *)
(***************************************************************************)
Feat(kind, id, name, county, parent, pop, area, density) ==
  [kind |-> kind, id |-> id, ags |-> id, name |-> name, county |-> county,
   parent |-> parent, pop |-> pop, area_km2 |-> area, density |-> density,
   rank |-> None]

\* a FeatureCollection state value: null, or a loaded collection
NullFC == [loaded |-> FALSE, features |-> <<>>]
FC(feats) == [loaded |-> TRUE, features |-> feats]

\* Number.isFinite(x) for a value read from JSON (a number or absent)
IsFiniteNumber(o) == IsSome(o)

(***************************************************************************)
(* Colour mappings.                                                        *)
(***************************************************************************)
COLORS ==
  <<"#7f0000", "#cc0000", "#ff66a3", "#cc5500", "#ff9900",
    "#ffff00", "#add8e6", "#0000ff", "#90ee90", "#008000">>

GRAY == "#cccccc"

\* colorForPop of the Leaflet variant
ColorForPop(pop) ==
  LET p == IF IsSome(pop) THEN Val(pop) ELSE -1 IN
  IF p < 0 THEN GRAY
  ELSE IF p <= 5000 THEN COLORS[1]
  ELSE IF p <= 10000 THEN COLORS[2]
  ELSE IF p <= 20000 THEN COLORS[3]
  ELSE IF p <= 30000 THEN COLORS[4]
  ELSE IF p <= 40000 THEN COLORS[5]
  ELSE IF p <= 50000 THEN COLORS[6]
  ELSE IF p <= 60000 THEN COLORS[7]
  ELSE IF p <= 80000 THEN COLORS[8]
  ELSE IF p <= 100000 THEN COLORS[9]
  ELSE COLORS[10]

\* v <= n for a density v = <<num, den>> with den > 0
DensityLeq(v, n) == v[1] <= n * v[2]

\* colorForDensity of the Leaflet variant; d is None or Some(<<num, den>>)
ColorForDensity(d) ==
  LET v == IF IsSome(d) THEN Val(d) ELSE <<-1, 1>> IN
  IF v[1] < 0 THEN GRAY
  ELSE IF DensityLeq(v, 50) THEN COLORS[1]
  ELSE IF DensityLeq(v, 100) THEN COLORS[2]
  ELSE IF DensityLeq(v, 200) THEN COLORS[3]
  ELSE IF DensityLeq(v, 400) THEN COLORS[4]
  ELSE IF DensityLeq(v, 800) THEN COLORS[5]
  ELSE IF DensityLeq(v, 1200) THEN COLORS[6]
  ELSE IF DensityLeq(v, 2000) THEN COLORS[7]
  ELSE IF DensityLeq(v, 3000) THEN COLORS[8]
  ELSE IF DensityLeq(v, 4000) THEN COLORS[9]
  ELSE COLORS[10]

\* the stops of colorExpr (MapLibre variant): <<input, output>> pairs
ColorExprStops ==
  << <<5000, "#cc0000">>, <<10000, "#ff66a3">>, <<20000, "#cc5500">>,
     <<30000, "#ff9900">>, <<40000, "#ffff00">>, <<50000, "#add8e6">>,
     <<60000, "#0000ff">>, <<80000, "#90ee90">>, <<100000, "#008000">> >>

\* the style default of fill-color, used when an expression cannot be evaluated
FillColorDefault == "#000000"

\* a "step" expression: the first output below the first stop, else the output
\* of the last stop whose input is less than or equal to the value
StepEval(v, first, stops) ==
  IF v < stops[1][1] THEN first
  ELSE LET i == CHOOSE k \in DOMAIN stops :
                  /\ stops[k][1] <= v
                  /\ \A j \in DOMAIN stops : stops[j][1] <= v => j <= k
       IN stops[i][2]

\* ["step", ["get", "pop"], "#7f0000", 5000, "#cc0000", ...]; a null input is
\* not a number, and the layer falls back to the style default
ColorExpr(pop) ==
  IF IsSome(pop) THEN StepEval(Val(pop), "#7f0000", ColorExprStops)
  ELSE FillColorDefault

(***************************************************************************)
(* Sorting and ranking.                                                    *)
(***************************************************************************)
\* (f.properties.pop ?? -1)
PopOrMinus1(f) == IF IsSome(f.pop) THEN Val(f.pop) ELSE -1

\* the comparator of the Leaflet variant (combined and listItems)
LeafletCmp(a, b) == PopOrMinus1(b) - PopOrMinus1(a)

\* the comparator of the MapLibre variant
MapLibreCmp(a, b) ==
  LET pa == PopOrMinus1(a)
      pb == PopOrMinus1(b)
  IN IF pa = -1 /\ pb = -1 THEN 0
     ELSE IF pa = -1 THEN 1
     ELSE IF pb = -1 THEN -1
     ELSE pa - pb

\* the comparator of variant v
Cmp(v, a, b) == IF v = "leaflet" THEN LeafletCmp(a, b) ELSE MapLibreCmp(a, b)

\* Array.prototype.sort with variant v's comparator, a total preorder: the
\* sort is stable, so an element's place is the number of elements that go
\* before it
StableSort(s, v) ==
  LET before(i) == {j \in DOMAIN s :
                      \/ Cmp(v, s[j], s[i]) < 0
                      \/ Cmp(v, s[j], s[i]) = 0 /\ j < i}
  IN [k \in DOMAIN s |->
        s[CHOOSE i \in DOMAIN s : Cardinality(before(i)) + 1 = k]]

\* Number.isFinite(f.properties.pop)
LeafletRanked(f) == IsFiniteNumber(f.pop)

\* f.properties.pop ? ... : ... (JavaScript truthiness: 0 and null are falsy)
MapLibreRanked(f) == IsSome(f.pop) /\ Val(f.pop) # 0

\* the rank test of variant v
Ranked(v, f) == IF v = "leaflet" THEN LeafletRanked(f) ELSE MapLibreRanked(f)

\* let rank = 1; sorted.map(f => ({..., rank: <test> ? rank++ : undefined}))
AssignRanks(sorted, v) ==
  [k \in DOMAIN sorted |->
     [sorted[k] EXCEPT !.rank =
        IF Ranked(v, sorted[k])
        THEN Some(1 + Cardinality({j \in 1..(k - 1) : Ranked(v, sorted[j])}))
        ELSE None]]

\* the in-place density recomputation of the Leaflet variant's combined
FillDensity(f) ==
  IF /\ ~IsSome(f.density)
     /\ IsFiniteNumber(f.pop)
     /\ IsFiniteNumber(f.area_km2)
     /\ Val(f.area_km2) > 0
  THEN [f EXCEPT !.density = Some(<<Val(f.pop), Val(f.area_km2)>>)]
  ELSE f

FillDensityAll(feats) == [i \in DOMAIN feats |-> FillDensity(feats[i])]

\* arr of combined: the municipalities, then the districts
MergeInput(gem, ort) ==
  (IF gem.loaded THEN gem.features ELSE <<>>)
    \o (IF ort.loaded THEN ort.features ELSE <<>>)

\* combined of the Leaflet variant
LeafletCombined(gem, ort) ==
  AssignRanks(StableSort(FillDensityAll(MergeInput(gem, ort)), "leaflet"),
              "leaflet")

\* combined of the MapLibre variant (pop ?? null leaves None as it is)
MapLibreCombined(gem, ort) ==
  AssignRanks(StableSort(MergeInput(gem, ort), "maplibre"), "maplibre")

\* gemeindenOnly / ortsteileOnly / gemeindenFC / ortsteileFC
OnlyKind(fc, comb, kind) ==
  IF ~fc.loaded THEN NullFC
  ELSE FC(SelectSeq(comb, LAMBDA f : f.kind = kind))

(***************************************************************************)
(* The list filters.                                                       *)
(***************************************************************************)
\* m of the Leaflet variant
LeafletM(s, q) == Includes(Norm(s), Norm(q))

\* the filter predicate of the Leaflet variant
LeafletMatches(f, q) ==
  \/ LeafletM(f.name, q)
  \/ f.county # <<>> /\ LeafletM(f.county, q)
  \/ f.ags # <<>> /\ LeafletM(f.ags, q)

\* listItems of the Leaflet variant
LeafletListItems(showG, gOnly, oOnly, q) ==
  LET base == IF showG THEN gOnly.features ELSE oOnly.features
      filtered == IF Len(Trim(q)) = 0 THEN base
                  ELSE SelectSeq(base, LAMBDA f : LeafletMatches(f, q))
  IN StableSort(filtered, "leaflet")

\* nameMatch of the MapLibre variant
NameMatch(s, q) == Includes(ToLowerCase(s), ToLowerCase(q))

MapLibreMatches(f, q) ==
  \/ NameMatch(f.name, q)
  \/ f.parent # <<>> /\ NameMatch(f.parent, q)
  \/ f.county # <<>> /\ NameMatch(f.county, q)

\* listItems of the MapLibre variant
MapLibreListItems(comb, q) == SelectSeq(comb, LAMBDA f : MapLibreMatches(f, q))

(***************************************************************************)
(* The static files the application fetches.                               *)
(***************************************************************************)
Digits == <<"0", "1", "2", "3", "4", "5", "6", "7", "8", "9">>

\* the i-th chunk code: "01", "02", ...
CodeOf(i) == <<Digits[(i \div 10) + 1], Digits[(i % 10) + 1]>>

\* codes of the chunk-load effect, as indices
Codes == 1..NumChunks

Gemeinde(id, name, county, pop, area, density) ==
  Feat("gemeinde", id, name, county, <<>>, pop, area, density)

Ortsteil(id, name, parent, county, pop, area, density) ==
  Feat("ortsteil", id, name, county, parent, pop, area, density)

Muenchen == <<"M", "uuml", "n", "c", "h", "e", "n">>
Ulm == <<"U", "l", "m">>

\* populations 50000, null, 20000, 20000 over two chunks; districts 30000, null
WorldA ==
  [chunks |->
     << << Gemeinde(<<"0", "1", "1">>, Muenchen, Muenchen,
                    Some(50000), Some(310), None),
           Gemeinde(<<"0", "1", "2">>, <<"A", "u">>, <<>>,
                    None, Some(5), None) >>,
        << Gemeinde(<<"0", "2", "1">>, Ulm, Ulm,
                    Some(20000), Some(100), Some(<<20000, 100>>)),
           Gemeinde(<<"0", "2", "2">>, <<"H", "o", "f">>, Ulm,
                    Some(20000), None, None) >> >>,
   ort |->
     << Ortsteil(<<"9", "1">>, <<"M", "o", "o", "s">>, Ulm, Ulm,
                 Some(30000), Some(20), None),
        Ortsteil(<<"9", "2">>, <<"S", "e", "e">>, Muenchen, <<>>,
                 None, None, None) >>]

\* populations at the band boundaries, and a population of zero
WorldB ==
  [chunks |->
     << << Gemeinde(<<"0", "1", "3">>, <<"A", "a">>, <<>>,
                    Some(0), Some(10), None) >>,
        << Gemeinde(<<"0", "2", "3">>, <<"H", "a", "u", "s">>, Ulm,
                    Some(5000), Some(100), None),
           Gemeinde(<<"0", "2", "4">>, <<"S", "u", "l", "z">>, Ulm,
                    Some(5001), Some(0), None) >> >>,
   ort |->
     << Ortsteil(<<"9", "3">>, <<"A", "u">>, <<"H", "a", "u", "s">>, Ulm,
                 Some(100), Some(2), None) >>]

Worlds == {WorldA, WorldB}

\* de-<code>.geojson of world w; a chunk the world does not list holds one
\* municipality of that state
ChunkFile(w, c) ==
  IF c \in DOMAIN w.chunks THEN w.chunks[c]
  ELSE << Gemeinde(CodeOf(c) \o <<"0">>, <<"H", "o", "f">>, <<>>,
                   Some(1000 * c), Some(10), None) >>

\* gemeinden.geojson: the unsplit file, the chunks in code order
GemeindenFile(w) == Flatten([c \in Codes |-> ChunkFile(w, c)])

\* ortsteile.geojson
OrtsteileFile(w) == w.ort

\* what a request can come to
Outcomes == {"ok", "neterr", "httperr", "badjson"}

\* the search strings typed: "", " ", "muenchen", "m" + u-umlaut, "ulm"
Queries ==
  { <<>>,
    <<" ">>,
    <<"m", "u", "e", "n", "c", "h", "e", "n">>,
    <<"m", "uuml">>,
    <<"u", "l", "m">> }

(***************************************************************************)
(* State.                                                                  *)
(***************************************************************************)
VARIABLES
  variant,        \* "leaflet" | "maplibre": which App is running
  world,          \* the static files on the server
  pc,             \* "init" before the mount effect, "mounted" after
  chunk,          \* Leaflet: per code "pending" | "ok" | "failed"
  parts,          \* Leaflet: the per-code promises given to Promise.all
  arrival,        \* Leaflet: the codes in the order their requests completed
  gemFetch,       \* MapLibre: "none" | "pending" | "ok" | "failed"
  ortFetch,       \* "none" | "pending" | "ok" | "failed"
  fetchCount,     \* number of fetch calls issued so far
  gemeinden,      \* useState<FC | null>
  ortsteile,      \* useState<FC | null>
  query,          \* useState("")
  showGemeinden,  \* useState(true)
  showOrtsteile,  \* useState(false) (Leaflet), useState(true) (MapLibre)
  colorMode,      \* useState("pop"), Leaflet only
  combined,       \* the memoized ranked merge
  lastOff,        \* what was shown when a dataset was last switched off
  firstLoaded,    \* "none", or the collection that was stored first
  splitPc,        \* splitter: "idle" | "start" | "done"
  splitInput,     \* splitter: fc.features of the source file
  splitFiles,     \* splitter: the files written, by code
  splitLog,       \* splitter: the codes in the order they were written
  colorFn,        \* colour mapping applied: "none" or its name
  colorIn,        \* colour mapping input
  colorOut,       \* colour mapping result
  prodPc,         \* producer: "idle" | "probeGem" | "probeKrs" | "pages" | "exited"
  srvSize,        \* producer: records the service holds, per resource type
  total,          \* producer: gemTotal / krsTotal, None until discovered
  pageIdx,        \* producer: i of each fetchAll loop
  loopState,      \* producer: "idle" | "awaiting" | "resolved" | "rejected"
  results,        \* producer: results of each fetchAll, one entry per page
  requests,       \* producer: every request issued, in order
  reqFailed,      \* producer: some request has failed
  exitCode,       \* producer: None while running, then the exit code
  outFile,        \* producer: None, or the content written to OUT_GEM
  rawEwz,         \* producer, one record: p.ewz as the service gave it
  rawKfl,         \* producer, one record: p.kfl as the service gave it
  written         \* producer, one record: None, or the properties written

appVars ==
  <<variant, world, pc, chunk, parts, arrival, gemFetch, ortFetch, fetchCount,
    gemeinden, ortsteile, query, showGemeinden, showOrtsteile, colorMode,
    combined, lastOff, firstLoaded>>
splitVars == <<splitPc, splitInput, splitFiles, splitLog>>
colorVars == <<colorFn, colorIn, colorOut>>
prodVars ==
  <<prodPc, srvSize, total, pageIdx, loopState, results, requests, reqFailed,
    exitCode, outFile>>
densVars == <<rawEwz, rawKfl, written>>
vars == <<appVars, splitVars, colorVars, prodVars, densVars>>

(***************************************************************************)
(* The presentation application: derived values of a render.               *)
(***************************************************************************)
Combined(v, g, o) ==
  IF v = "leaflet" THEN LeafletCombined(g, o) ELSE MapLibreCombined(g, o)

\* the loaded collection after combined ran over its feature objects: the
\* Leaflet variant writes density into them, the MapLibre variant copies
AfterCombined(v, fc) ==
  IF v = "leaflet" THEN [fc EXCEPT !.features = FillDensityAll(@)] ELSE fc

GemeindenOnly == OnlyKind(gemeinden, combined, "gemeinde")
OrtsteileOnly == OnlyKind(ortsteile, combined, "ortsteil")

\* the features of the list in the side panel
ListItems ==
  IF variant = "leaflet"
  THEN LeafletListItems(showGemeinden, GemeindenOnly, OrtsteileOnly, query)
  ELSE MapLibreListItems(combined, query)

\* fillColor / fill-color of one feature of a layer
FillColor(f) ==
  IF variant = "leaflet"
  THEN IF colorMode = "pop" THEN ColorForPop(f.pop)
       ELSE ColorForDensity(f.density)
  ELSE ColorExpr(f.pop)

\* {show && fc && (<GeoJSON data={fc}/>)}: None when the layer is not rendered
Layer(show, fc) ==
  IF show /\ fc.loaded
  THEN Some([i \in DOMAIN fc.features |->
               [feature |-> fc.features[i],
                fillColor |-> FillColor(fc.features[i])]])
  ELSE None

MapLayers ==
  [gemeinden |-> Layer(showGemeinden, GemeindenOnly),
   ortsteile |-> Layer(showOrtsteile, OrtsteileOnly)]

\* everything the user sees of the data
View == [list |-> ListItems, layers |-> MapLayers]

\* lastOff: nothing recorded; a dataset just switched off, with the view before
\* it; and that dataset just switched on again, with the view before the off
NoOff == [which |-> "none", phase |-> "none", view |-> <<>>]
SwitchedOff(which, view) == [which |-> which, phase |-> "off", view |-> view]
SwitchedOn(which, view) == [which |-> which, phase |-> "on", view |-> view]

\* lastOff after the switch of dataset `which` is flipped from `shown`
AfterSwitch(which, shown) ==
  IF shown THEN SwitchedOff(which, View)
  ELSE IF lastOff.which = which /\ lastOff.phase = "off"
       THEN SwitchedOn(which, lastOff.view)
       ELSE NoOff

(***************************************************************************)
(* The presentation application: promises of the mount effect.             *)
(***************************************************************************)
Pending == [state |-> "pending", features |-> <<>>]
Fulfilled(feats) == [state |-> "fulfilled", features |-> feats]
Rejected == [state |-> "rejected", features |-> <<>>]

\* the chain without its .catch: a rejected fetch or r.json() stays rejected
ChunkPromiseNoCatch(outcome, file) ==
  CASE outcome = "ok" -> Fulfilled(file)
    [] outcome = "httperr" -> Fulfilled(<<>>)
    [] outcome = "neterr" -> Rejected
    [] outcome = "badjson" -> Rejected

\* fetch(url).then(r => r.ok ? r.json() : EMPTY).catch(() => EMPTY)
ChunkPromise(outcome, file) ==
  CASE outcome = "ok" -> Fulfilled(file)
    [] outcome = "httperr" -> Fulfilled(<<>>)
    [] outcome = "neterr" -> Fulfilled(<<>>)
    [] outcome = "badjson" -> Fulfilled(<<>>)

\* the values pushed as each request completes, instead of Promise.all's array
PromiseAllValuesInArrivalOrder(ps, order) ==
  [i \in 1..Len(order) |-> ps[order[i]].features]

\* the array Promise.all resolves with: one value per input promise, in the
\* order of the input array, whatever the order of completion
PromiseAllValues(ps, order) == [i \in 1..NumChunks |-> ps[i].features]

\* parts.flatMap(p => p.features)
AllFeatures(values) == Flatten(values)

\* a render that ranks the newly arrived collection on its own and keeps the
\* ranked features it already has
SetDataIncremental(g, o) ==
  /\ firstLoaded' = IF firstLoaded # "none" THEN firstLoaded
                    ELSE IF g.loaded /\ ~gemeinden.loaded THEN "gemeinden"
                    ELSE "ortsteile"
  /\ gemeinden' = AfterCombined(variant, g)
  /\ ortsteile' = AfterCombined(variant, o)
  /\ combined' = IF g.loaded /\ ~gemeinden.loaded
                 THEN Combined(variant, g, NullFC) \o combined
                 ELSE combined \o Combined(variant, NullFC, o)

\* a state setter of the two collections followed by the render it causes
SetData(g, o) ==
  /\ firstLoaded' = IF firstLoaded # "none" THEN firstLoaded
                    ELSE IF g.loaded /\ ~gemeinden.loaded THEN "gemeinden"
                    ELSE "ortsteile"
  /\ gemeinden' = AfterCombined(variant, g)
  /\ ortsteile' = AfterCombined(variant, o)
  /\ combined' = Combined(variant, g, o)

(***************************************************************************)
(* The presentation application: actions.                                  *)
(***************************************************************************)
AppIdle ==
  /\ variant = "none"
  /\ world = WorldA
  /\ pc = "idle"
  /\ chunk = [c \in Codes |-> "pending"]
  /\ parts = [c \in Codes |-> Pending]
  /\ arrival = <<>>
  /\ gemFetch = "none"
  /\ ortFetch = "none"
  /\ fetchCount = 0
  /\ gemeinden = NullFC
  /\ ortsteile = NullFC
  /\ query = <<>>
  /\ showGemeinden = TRUE
  /\ showOrtsteile = FALSE
  /\ colorMode = "pop"
  /\ combined = <<>>
  /\ lastOff = NoOff
  /\ firstLoaded = "none"

SplitIdle ==
  /\ splitPc = "idle"
  /\ splitInput = <<>>
  /\ splitFiles = <<>>
  /\ splitLog = <<>>

ColorIdle ==
  /\ colorFn = "none"
  /\ colorIn = None
  /\ colorOut = "none"

Types == {"gem", "krs"}

ProdIdle ==
  /\ prodPc = "idle"
  /\ srvSize = [t \in Types |-> 0]
  /\ total = [t \in Types |-> None]
  /\ pageIdx = [t \in Types |-> 0]
  /\ loopState = [t \in Types |-> "idle"]
  /\ results = [t \in Types |-> <<>>]
  /\ requests = <<>>
  /\ reqFailed = FALSE
  /\ exitCode = None
  /\ outFile = None

DensIdle ==
  /\ rawEwz = None
  /\ rawKfl = None
  /\ written = None

\* the state after the first render of App
Init ==
  /\ variant \in {"leaflet", "maplibre"}
  /\ world \in Worlds
  /\ pc = "init"
  /\ chunk = [c \in Codes |-> "pending"]
  /\ parts = [c \in Codes |-> Pending]
  /\ arrival = <<>>
  /\ gemFetch = "none"
  /\ ortFetch = "none"
  /\ fetchCount = 0
  /\ gemeinden = NullFC
  /\ ortsteile = NullFC
  /\ query = <<>>
  /\ showGemeinden = TRUE
  /\ showOrtsteile = (variant = "maplibre")
  /\ colorMode = "pop"
  /\ combined = <<>>
  /\ lastOff = NoOff
  /\ firstLoaded = "none"
  /\ SplitIdle
  /\ ColorIdle
  /\ ProdIdle
  /\ DensIdle

\* useEffect(() => {...}, []): issues every request, once
Mount ==
  /\ pc = "init"
  /\ pc' = "mounted"
  /\ fetchCount' = fetchCount + (IF variant = "leaflet" THEN NumChunks + 1 ELSE 2)
  /\ gemFetch' = IF variant = "maplibre" THEN "pending" ELSE "none"
  /\ ortFetch' = "pending"
  /\ UNCHANGED <<variant, world, chunk, parts, arrival, gemeinden, ortsteile,
                 query, showGemeinden, showOrtsteile, colorMode, combined,
                 lastOff, firstLoaded, splitVars, colorVars, prodVars, densVars>>

\* Leaflet: the request of chunk c completes; when it is the last one,
\* Promise.all resolves and its then-callback stores the municipalities
ChunkSettle(c, outcome) ==
  /\ variant = "leaflet"
  /\ pc = "mounted"
  /\ chunk[c] = "pending"
  /\ chunk' = [chunk EXCEPT ![c] = IF outcome = "ok" THEN "ok" ELSE "failed"]
  /\ parts' = [parts EXCEPT ![c] = ChunkPromise(outcome, ChunkFile(world, c))]
  /\ arrival' = Append(arrival, c)
  /\ IF \A d \in Codes : parts'[d].state = "fulfilled"
     THEN SetData(FC(AllFeatures(PromiseAllValues(parts', arrival'))), ortsteile)
     ELSE UNCHANGED <<gemeinden, ortsteile, combined, firstLoaded>>
  /\ lastOff' = NoOff
  /\ UNCHANGED <<variant, world, pc, gemFetch, ortFetch, fetchCount, query,
                 showGemeinden, showOrtsteile, colorMode, splitVars, colorVars, prodVars, densVars>>

\* MapLibre: fetch("/data/gemeinden.geojson").then(r => r.json())
\*   .then(d => setGemeinden(d)); a failure is an unhandled rejection
GemeindenSettle(outcome) ==
  /\ variant = "maplibre"
  /\ gemFetch = "pending"
  /\ gemFetch' = IF outcome = "ok" THEN "ok" ELSE "failed"
  /\ IF outcome = "ok"
     THEN SetData(FC(GemeindenFile(world)), ortsteile)
     ELSE UNCHANGED <<gemeinden, ortsteile, combined, firstLoaded>>
  /\ lastOff' = NoOff
  /\ UNCHANGED <<variant, world, pc, chunk, parts, arrival, ortFetch,
                 fetchCount, query, showGemeinden, showOrtsteile, colorMode,
                 splitVars, colorVars, prodVars, densVars>>

\* fetch("/data/ortsteile.geojson").then(r => r.json()).then(setOrtsteile),
\* with .catch(() => {}) in the Leaflet variant
OrtsteileSettle(outcome) ==
  /\ ortFetch = "pending"
  /\ ortFetch' = IF outcome = "ok" THEN "ok" ELSE "failed"
  /\ IF outcome = "ok"
     THEN SetData(gemeinden, FC(OrtsteileFile(world)))
     ELSE UNCHANGED <<gemeinden, ortsteile, combined, firstLoaded>>
  /\ lastOff' = NoOff
  /\ UNCHANGED <<variant, world, pc, chunk, parts, arrival, gemFetch,
                 fetchCount, query, showGemeinden, showOrtsteile, colorMode,
                 splitVars, colorVars, prodVars, densVars>>

\* a switch handler that drops the municipalities when switched off
ToggleGemeindenDiscards ==
  /\ pc = "mounted"
  /\ showGemeinden' = ~showGemeinden
  /\ lastOff' = AfterSwitch("gemeinden", showGemeinden)
  /\ IF showGemeinden THEN SetData(NullFC, ortsteile)
     ELSE UNCHANGED <<gemeinden, ortsteile, combined, firstLoaded>>
  /\ UNCHANGED <<variant, world, pc, chunk, parts, arrival, gemFetch, ortFetch,
                 fetchCount, query, showOrtsteile, colorMode, splitVars,
                 colorVars, prodVars, densVars>>

\* <Switch checked={showGemeinden} onCheckedChange={setShowGemeinden}/>
ToggleGemeinden ==
  /\ pc = "mounted"
  /\ showGemeinden' = ~showGemeinden
  /\ lastOff' = AfterSwitch("gemeinden", showGemeinden)
  /\ UNCHANGED <<variant, world, pc, chunk, parts, arrival, gemFetch, ortFetch,
                 fetchCount, gemeinden, ortsteile, query, showOrtsteile,
                 colorMode, combined, firstLoaded, splitVars, colorVars, prodVars, densVars>>

\* <Switch checked={showOrtsteile} onCheckedChange={setShowOrtsteile}/>
ToggleOrtsteile ==
  /\ pc = "mounted"
  /\ showOrtsteile' = ~showOrtsteile
  /\ lastOff' = AfterSwitch("ortsteile", showOrtsteile)
  /\ UNCHANGED <<variant, world, pc, chunk, parts, arrival, gemFetch, ortFetch,
                 fetchCount, gemeinden, ortsteile, query, showGemeinden,
                 colorMode, combined, firstLoaded, splitVars, colorVars, prodVars, densVars>>

\* <Input value={query} onChange={(e) => setQuery(e.target.value)}/>
SetQuery(q) ==
  /\ pc = "mounted"
  /\ q # query
  /\ query' = q
  /\ lastOff' = NoOff
  /\ UNCHANGED <<variant, world, pc, chunk, parts, arrival, gemFetch, ortFetch,
                 fetchCount, gemeinden, ortsteile, showGemeinden,
                 showOrtsteile, colorMode, combined, firstLoaded, splitVars, colorVars, prodVars, densVars>>

\* Leaflet: onCheckedChange={(v) => setColorMode(v ? "density" : "pop")}
SetColorMode ==
  /\ variant = "leaflet"
  /\ pc = "mounted"
  /\ colorMode' = IF colorMode = "pop" THEN "density" ELSE "pop"
  /\ lastOff' = NoOff
  /\ UNCHANGED <<variant, world, pc, chunk, parts, arrival, gemFetch, ortFetch,
                 fetchCount, gemeinden, ortsteile, query, showGemeinden,
                 showOrtsteile, combined, firstLoaded, splitVars, colorVars, prodVars, densVars>>

Next ==
  \/ Mount
  \/ \E c \in Codes, outcome \in Outcomes : ChunkSettle(c, outcome)
  \/ \E outcome \in Outcomes : GemeindenSettle(outcome)
  \/ \E outcome \in Outcomes : OrtsteileSettle(outcome)
  \/ ToggleGemeinden
  \/ ToggleOrtsteile
  \/ \E q \in Queries : SetQuery(q)
  \/ SetColorMode

Spec == Init /\ [][Next]_vars

(***************************************************************************)
(* The data splitter.                                                      *)
(***************************************************************************)
\* a feature of the splitter's source file: the properties it reads
SplitFeat(ags, id, name) == [ags |-> ags, id |-> id, name |-> name]

\* the features the source file is made of
SplitPool ==
  { SplitFeat(<<"0", "1", "1">>, <<"0", "1", "1">>, "a"),
    SplitFeat(<<"0", "2", "1">>, <<>>, "b"),
    SplitFeat(<<"0", "1", "2">>, <<"0", "2", "9">>, "c"),
    SplitFeat(<<>>, <<"0", "2", "7">>, "d"),
    SplitFeat(<<>>, <<>>, "e"),
    SplitFeat(<<"1">>, <<"0", "1", "5">>, "f") }

\* the sequences over S of length at most n
SeqsUpTo(S, n) == UNION {[1..k -> S] : k \in 0..n}

\* UTF-16 code unit of a character of an identifier
CodeUnit(c) ==
  CASE c = "0" -> 48 [] c = "1" -> 49 [] c = "2" -> 50 [] c = "3" -> 51
    [] c = "4" -> 52 [] c = "5" -> 53 [] c = "6" -> 54 [] c = "7" -> 55
    [] c = "8" -> 56 [] c = "9" -> 57

\* a < b as Array.prototype.sort() compares two strings
StrLess(a, b) ==
  \E i \in 1..(Len(b)) :
    /\ \A j \in 1..(i - 1) : j <= Len(a) /\ a[j] = b[j]
    /\ \/ i = Len(a) + 1
       \/ i <= Len(a) /\ CodeUnit(a[i]) < CodeUnit(b[i])

\* Array.from(keys).sort()
SortKeys(keys) ==
  [k \in 1..Cardinality(keys) |->
     CHOOSE x \in keys : Cardinality({y \in keys : StrLess(y, x)}) + 1 = k]

\* s.slice(0, 2)
Slice02(s) == SubSeq(s, 1, IF Len(s) < 2 THEN Len(s) ELSE 2)

\* (f.properties?.ags || f.properties?.id || '').toString()
IdentOf(f) == IF f.ags # <<>> THEN f.ags ELSE IF f.id # <<>> THEN f.id ELSE <<>>

\* const state = ags.slice(0,2)
StateOf(f) == Slice02(IdentOf(f))

\* a group that takes its features at the front
UnshiftFeature(list, f) == <<f>> \o list

\* by.get(state).push(f)
PushFeature(list, f) == Append(list, f)

RECURSIVE GroupByState(_, _)
\* the loop over fc.features, filling the Map `by`
GroupByState(feats, by) ==
  IF feats = <<>> THEN by
  ELSE LET f == Head(feats)
           state == StateOf(f)
           by0 == IF state \in DOMAIN by THEN by ELSE by @@ (state :> <<>>)
       IN GroupByState(Tail(feats),
                       [by0 EXCEPT ![state] = PushFeature(@, f)])

\* the Map with no entry
EmptyMap == [x \in {} |-> <<>>]

SplitInit ==
  /\ AppIdle
  /\ ColorIdle
  /\ ProdIdle
  /\ DensIdle
  /\ splitPc = "start"
  /\ splitInput \in SeqsUpTo(SplitPool, MaxSplitLen)
  /\ splitFiles = EmptyMap
  /\ splitLog = <<>>

\* main(): group, sort the codes, write one file per code
SplitMain ==
  /\ splitPc = "start"
  /\ LET by == GroupByState(splitInput, EmptyMap)
         codes == SortKeys(DOMAIN by)
     IN /\ splitFiles' = [code \in SeqRange(codes) |-> by[code]]
        /\ splitLog' = codes
  /\ splitPc' = "done"
  /\ UNCHANGED <<splitInput, appVars, colorVars, prodVars, densVars>>

SplitNext == SplitMain

SpecSplit == SplitInit /\ [][SplitNext]_vars

\* the 2-character prefix of a feature's identifier (ags, else id)
PrefixOf(f) ==
  LET ident == IF f.ags # <<>> THEN f.ags ELSE f.id
  IN IF Len(ident) <= 2 THEN ident ELSE <<ident[1], ident[2]>>

\* C6: the splitter writes exactly one partition per distinct identifier
\* prefix, in sorted key order; each partition holds the features of its
\* prefix in their original relative order, so every feature is in exactly
\* one partition; and the partitions concatenated in sorted key order hold
\* the same multiset of features as the input.
C6_SplitPartitions ==
  splitPc = "done"
    => /\ DOMAIN splitFiles = {PrefixOf(splitInput[i]) : i \in DOMAIN splitInput}
       /\ SeqRange(splitLog) = DOMAIN splitFiles
       /\ \A i, j \in DOMAIN splitLog :
            i < j => StrLess(splitLog[i], splitLog[j])
       /\ \A code \in DOMAIN splitFiles :
            splitFiles[code] =
              SelectSeq(splitInput, LAMBDA f : PrefixOf(f) = code)
       /\ SeqToBag(Flatten([k \in DOMAIN splitLog |-> splitFiles[splitLog[k]]]))
            = SeqToBag(splitInput)

\* a source with two prefixes, one of them held by two different features
\* the second of which has no ags
C6_Witness ==
  /\ splitPc = "done"
  /\ Len(splitLog) >= 2
  /\ \E code \in DOMAIN splitFiles :
       /\ Len(splitFiles[code]) = 2
       /\ splitFiles[code][1].ags # <<>>
       /\ splitFiles[code][2].ags = <<>>

(***************************************************************************)
(* The colour mappings, applied to one value.                              *)
(***************************************************************************)
PopBreaks == {5000, 10000, 20000, 30000, 40000, 50000, 60000, 80000, 100000}
DensityBreaks == {50, 100, 200, 400, 800, 1200, 2000, 3000, 4000}

\* unknown, negative, zero, and every breakpoint and the value after it
ColorInputs ==
  {None} \cup {Some(v) : v \in {-1, 0}}
    \cup {Some(b) : b \in PopBreaks \cup DensityBreaks}
    \cup {Some(b + 1) : b \in PopBreaks \cup DensityBreaks}

ColorFns == {"colorForPop", "colorForDensity", "colorExpr"}

ColorInit ==
  /\ AppIdle
  /\ SplitIdle
  /\ ProdIdle
  /\ DensIdle
  /\ colorFn = "none"
  /\ colorIn \in ColorInputs
  /\ colorOut = "none"

\* the style function of a layer calls the mapping on a feature's value
ApplyColor(fn) ==
  /\ colorFn = "none"
  /\ colorFn' = fn
  /\ colorOut' =
       CASE fn = "colorForPop" -> ColorForPop(colorIn)
         [] fn = "colorForDensity" ->
              ColorForDensity(IF IsSome(colorIn) THEN Some(<<Val(colorIn), 1>>)
                              ELSE None)
         [] fn = "colorExpr" -> ColorExpr(colorIn)
  /\ UNCHANGED <<colorIn, appVars, splitVars, prodVars, densVars>>

ColorNext == \E fn \in ColorFns : ApplyColor(fn)

SpecColor == ColorInit /\ [][ColorNext]_vars

\* the reference bucketing: gray for an unknown or negative value, else the
\* colour whose index is the number of breakpoints strictly below the value
ReferenceColor(breaks, v) ==
  IF ~IsSome(v) \/ Val(v) < 0 THEN GRAY
  ELSE COLORS[1 + Cardinality({b \in breaks : b < Val(v)})]

\* C5: every colour mapping (population in both variants, density in the
\* dual-mode variant) gives a known, non-negative value the colour of the
\* reference bucketing, upper bounds inclusive (5000 the first band, 5001 the
\* second), and the gray of unknown values is none of the ten data colours.
C5_ColorIsReferenceBucket ==
  /\ GRAY \notin SeqRange(COLORS)
  /\ (colorFn # "none" /\ IsSome(colorIn) /\ Val(colorIn) >= 0)
       => colorOut =
            ReferenceColor(IF colorFn = "colorForDensity" THEN DensityBreaks
                           ELSE PopBreaks, colorIn)

(***************************************************************************)
(* Properties of the presentation application.                             *)
(***************************************************************************)
\* feature lists that hold the same features in the same order, the density
\* that combined writes into a loaded feature aside
SameFeatures(stored, loaded) ==
  /\ Len(stored) = Len(loaded)
  /\ \A i \in DOMAIN stored :
       [stored[i] EXCEPT !.density = loaded[i].density] = loaded[i]

AllChunksSettled == \A c \in Codes : chunk[c] # "pending"

\* the chunk files of the codes in S, concatenated in ascending code order
ChunksInCodeOrder(S) ==
  Flatten([c \in Codes |-> IF c \in S THEN ChunkFile(world, c) ELSE <<>>])

\* C1: Leaflet variant: when every chunk request has completed successfully,
\* in whatever order, the stored municipalities are the chunks' features
\* concatenated in ascending chunk-code order, each chunk in file order.
C1_ChunkOrderFixed ==
  (variant = "leaflet" /\ \A c \in Codes : chunk[c] = "ok")
    => /\ gemeinden.loaded
       /\ SameFeatures(gemeinden.features, ChunksInCodeOrder(Codes))

\* the requests completed out of code order and the collection is stored
C1_Witness ==
  /\ variant = "leaflet"
  /\ \A c \in Codes : chunk[c] = "ok"
  /\ \E i, j \in DOMAIN arrival : i < j /\ arrival[i] > arrival[j]
  /\ gemeinden.loaded
  /\ Len(gemeinden.features) > Len(ChunkFile(world, 1))

\* C2: Leaflet variant: once every chunk request has settled, whichever of
\* them failed, the municipalities are set and are the code-order
\* concatenation of the successful chunks only.
C2_FailedChunksEmpty ==
  (variant = "leaflet" /\ AllChunksSettled)
    => /\ gemeinden.loaded
       /\ SameFeatures(gemeinden.features,
                       ChunksInCodeOrder({c \in Codes : chunk[c] = "ok"}))

\* some chunk failed, another succeeded, and the collection is stored
C2_Witness ==
  /\ variant = "leaflet"
  /\ AllChunksSettled
  /\ \E c \in Codes : chunk[c] = "failed"
  /\ \E c \in Codes : chunk[c] = "ok" /\ ChunkFile(world, c) # <<>>
  /\ gemeinden.loaded
  /\ gemeinden.features # <<>>

\* the place of feature f in the merged input of combined
InputPos(f) ==
  CHOOSE k \in DOMAIN MergeInput(gemeinden, ortsteile) :
    /\ MergeInput(gemeinden, ortsteile)[k].kind = f.kind
    /\ MergeInput(gemeinden, ortsteile)[k].id = f.id

\* C3: in the ranked merge of either variant, of two ranked features with
\* known population the one with the larger population has the smaller rank,
\* and of two with equal population the one earlier in the merged input has
\* the smaller rank.
C3_RanksPopulationDescending ==
  \A i, j \in DOMAIN combined :
    LET a == combined[i]
        b == combined[j]
    IN (IsSome(a.pop) /\ IsSome(b.pop) /\ IsSome(a.rank) /\ IsSome(b.rank))
         => /\ Val(a.pop) > Val(b.pop) => Val(a.rank) < Val(b.rank)
            /\ (Val(a.pop) = Val(b.pop) /\ InputPos(a) < InputPos(b))
                 => Val(a.rank) < Val(b.rank)

\* C4: in the ranked merge of either variant a feature has a rank exactly when
\* its population is known (0 included), and the ranks are exactly 1..N, N the
\* number of features of known population, none repeated.
C4_RankIffPopulationKnown ==
  LET ranked == {i \in DOMAIN combined : IsSome(combined[i].rank)}
      known == {i \in DOMAIN combined : IsSome(combined[i].pop)}
      ranks == {Val(combined[i].rank) : i \in ranked}
  IN /\ ranked = known
     /\ ranks = 1..Cardinality(known)
     /\ Cardinality(ranks) = Cardinality(ranked)

\* a name as it is typed without umlauts: lower case, ae oe ue ss
TypedWithoutUmlauts(name) == Transliterate(ToLowerCase(name))

\* C7: Leaflet variant: a query that spells a listed feature's name with
\* ae/oe/ue/ss for its umlauts ("muenchen" for the name Muenchen written with
\* u-umlaut) matches that feature, which is then in the filtered list.
C7_TransliteratedQueryMatches ==
  (variant = "leaflet" /\ showGemeinden /\ Len(Trim(query)) > 0)
    => \A i \in DOMAIN GemeindenOnly.features :
         LET f == GemeindenOnly.features[i] IN
         query = TypedWithoutUmlauts(f.name)
           => \E k \in DOMAIN ListItems : ListItems[k].id = f.id

\* C8: a dataset's features are in the list and on the map only if that
\* dataset's visibility toggle is enabled.
C8_ShownOnlyIfToggled ==
  /\ (\E k \in DOMAIN ListItems : ListItems[k].kind = "gemeinde")
       => showGemeinden
  /\ (\E k \in DOMAIN ListItems : ListItems[k].kind = "ortsteil")
       => showOrtsteile
  /\ IsSome(MapLayers.gemeinden) => showGemeinden
  /\ IsSome(MapLayers.ortsteile) => showOrtsteile

\* C9: a change of a visibility toggle leaves both fetched collections as
\* they are and issues no fetch; fetches are issued by the mount effect
\* only; and a dataset switched off and then on again, nothing else having
\* happened in between, shows the list and the map layers shown before it
\* was switched off.
C9_ToggleKeepsData ==
  /\ [][/\ (showGemeinden' # showGemeinden \/ showOrtsteile' # showOrtsteile)
             => /\ gemeinden' = gemeinden
                /\ ortsteile' = ortsteile
                /\ fetchCount' = fetchCount
        /\ fetchCount' # fetchCount => (pc = "init" /\ pc' = "mounted")]_vars
  /\ [](lastOff.phase = "on" => View = lastOff.view)

\* the municipalities were loaded and shown, switched off and on again
C9_Witness ==
  /\ lastOff.phase = "on"
  /\ lastOff.which = "gemeinden"
  /\ showGemeinden
  /\ gemeinden.loaded
  /\ IsSome(lastOff.view.layers.gemeinden)
  /\ lastOff.view.list # <<>>

\* C10: with an empty query the list holds every feature of the dataset the
\* toggles select and none of the other dataset (stated where exactly one
\* toggle is enabled, so that the selected dataset is not in question).
C10_EmptyQueryWholeDataset ==
  (query = <<>> /\ showGemeinden # showOrtsteile)
    => LET kind == IF showGemeinden THEN "gemeinde" ELSE "ortsteil"
           all == SelectSeq(combined, LAMBDA f : f.kind = kind)
       IN /\ Len(ListItems) = Len(all)
          /\ SeqRange(ListItems) = SeqRange(all)

(***************************************************************************)
(* The data producer: probes and page loops.                               *)
(***************************************************************************)
\* fetchAll(GEM_TYPE, gemTotal, 1000)
GemPageSize == 1000
\* fetchAll(KRS_TYPE, krsTotal, 500)
KrsPageSize == 500
\* fetchPage(typeNames, 0, 1) of discoverTotal
ProbeCount == 1
\* the most pages a resource type of the service fills
MaxPages == 2

PageSize(t) == IF t = "gem" THEN GemPageSize ELSE KrsPageSize

\* the record counts the service may hold: none, one, full pages, and one
\* record more than a full page
ServerSizes(t) ==
  {0, 1} \cup {k * PageSize(t) : k \in 1..MaxPages}
         \cup {k * PageSize(t) + 1 : k \in 1..(MaxPages - 1)}

\* a request of fetchPage: count and startIndex of the URL
Req(t, start, count) == [type |-> t, start |-> start, count |-> count]

\* the features of a response, as the half-open interval <<lo, hi>> of the
\* record indices it holds: the records from start on, at most count of them
ServerPage(size, start, count) ==
  IF start >= size THEN <<start, start>>
  ELSE <<start, IF start + count < size THEN start + count ELSE size>>

PageLen(page) == page[2] - page[1]

ProbeOutcomes == {"ok", "nototal", "neterr", "httperr", "badjson"}
PageOutcomes == {"ok", "nofeatures", "neterr", "httperr", "badjson"}

\* fetchPage throws: fetch rejects, !res.ok, or res.json() rejects
FetchPageThrows(outcome) == outcome \in {"neterr", "httperr", "badjson"}

\* a page loop that takes a response without features as an empty page
PageThrowsLenient(outcome) == FetchPageThrows(outcome)

\* fetchAll throws: fetchPage throws, or if (!j.features) throw
PageThrows(outcome) == FetchPageThrows(outcome) \/ outcome = "nofeatures"

\* ...j.features of a response that did not throw
PageFeatures(outcome, page) ==
  IF outcome = "ok" THEN page ELSE <<page[1], page[1]>>

\* j.totalFeatures || j.numberMatched || (j.features ? j.features.length : 0);
\* reported is 0 when the response carries neither count
DiscoverTotal(reported, page) ==
  IF reported # 0 THEN reported ELSE PageLen(page)

\* Math.ceil(total / count)
Pages(tot, count) == (tot + count - 1) \div count

\* a loop that skips the first page
PageStartFromOne(i, count) == (i + 1) * count

\* const start = i * count
PageStart(i, count) == i * count

\* what the script writes: the municipalities built from the records of
\* gemFeatures, joined with the counties of krsFeatures
OutContent(res) == [gemFeatures |-> res["gem"], krsFeatures |-> res["krs"]]

\* the script has started and awaits the first probe
ProdInit ==
  /\ AppIdle
  /\ SplitIdle
  /\ ColorIdle
  /\ DensIdle
  /\ prodPc = "probeGem"
  /\ srvSize \in [Types -> ServerSizes("gem") \cup ServerSizes("krs")]
  /\ srvSize["gem"] \in ServerSizes("gem")
  /\ srvSize["krs"] \in ServerSizes("krs")
  /\ total = [t \in Types |-> None]
  /\ pageIdx = [t \in Types |-> 0]
  /\ loopState = [t \in Types |-> "idle"]
  /\ results = [t \in Types |-> <<>>]
  /\ requests = <<Req("gem", 0, ProbeCount)>>
  /\ reqFailed = FALSE
  /\ exitCode = None
  /\ outFile = None

\* the requests a starting fetchAll(t, tot) issues before its first await
FirstRequest(t, tot) ==
  IF Pages(tot, PageSize(t)) > 0
  THEN <<Req(t, PageStart(0, PageSize(t)), PageSize(t))>>
  ELSE <<>>

\* the state of a fetchAll(t, tot) at its first await
FirstLoopState(t, tot) ==
  IF Pages(tot, PageSize(t)) > 0 THEN "awaiting" ELSE "resolved"

\* the response of a discoverTotal probe arrives; after the second one both
\* fetchAll loops start inside Promise.all
ProbeResponse(outcome) ==
  /\ prodPc \in {"probeGem", "probeKrs"}
  /\ LET t == IF prodPc = "probeGem" THEN "gem" ELSE "krs"
         page == ServerPage(srvSize[t], 0, ProbeCount)
         tot == DiscoverTotal(IF outcome = "ok" THEN srvSize[t] ELSE 0, page)
         tots == [total EXCEPT ![t] = Some(tot)]
         ls == [u \in Types |-> FirstLoopState(u, Val(tots[u]))]
     IN /\ reqFailed' = (reqFailed \/ FetchPageThrows(outcome))
        /\ IF FetchPageThrows(outcome)
           THEN /\ exitCode' = Some(1)
                /\ prodPc' = "exited"
                /\ UNCHANGED <<total, loopState, requests, outFile>>
           ELSE IF t = "gem"
           THEN /\ total' = tots
                /\ prodPc' = "probeKrs"
                /\ requests' = Append(requests, Req("krs", 0, ProbeCount))
                /\ UNCHANGED <<loopState, exitCode, outFile>>
           ELSE /\ total' = tots
                /\ loopState' = ls
                /\ requests' = requests \o FirstRequest("gem", Val(tots["gem"]))
                                        \o FirstRequest("krs", Val(tots["krs"]))
                /\ IF \A u \in Types : ls[u] = "resolved"
                   THEN /\ outFile' = Some(OutContent(results))
                        /\ exitCode' = Some(0)
                        /\ prodPc' = "exited"
                   ELSE /\ prodPc' = "pages"
                        /\ UNCHANGED <<outFile, exitCode>>
  /\ UNCHANGED <<srvSize, pageIdx, results, appVars, splitVars, colorVars,
                 densVars>>

\* the response of the page fetchAll(t) awaits arrives: the loop throws, or
\* pushes the features and requests the next page, or returns; when both
\* loops have returned the script builds and writes the file
PageResponse(t, outcome) ==
  /\ prodPc = "pages"
  /\ loopState[t] = "awaiting"
  /\ LET c == PageSize(t)
         i == pageIdx[t]
         page == ServerPage(srvSize[t], PageStart(i, c), c)
         res == [results EXCEPT ![t] = Append(@, PageFeatures(outcome, page))]
         more == i + 1 < Pages(Val(total[t]), c)
         ls == [loopState EXCEPT
                  ![t] = IF more THEN "awaiting" ELSE "resolved"]
     IN /\ reqFailed' = (reqFailed \/ outcome # "ok")
        /\ IF PageThrows(outcome)
           THEN /\ loopState' = [loopState EXCEPT ![t] = "rejected"]
                /\ exitCode' = Some(1)
                /\ prodPc' = "exited"
                /\ UNCHANGED <<pageIdx, results, requests, outFile>>
           ELSE /\ results' = res
                /\ pageIdx' = [pageIdx EXCEPT ![t] = i + 1]
                /\ loopState' = ls
                /\ requests' = IF more
                               THEN Append(requests, Req(t, PageStart(i + 1, c), c))
                               ELSE requests
                /\ IF \A u \in Types : ls[u] = "resolved"
                   THEN /\ outFile' = Some(OutContent(res))
                        /\ exitCode' = Some(0)
                        /\ prodPc' = "exited"
                   ELSE UNCHANGED <<outFile, exitCode, prodPc>>
  /\ UNCHANGED <<srvSize, total, appVars, splitVars, colorVars, densVars>>

ProdNext ==
  \/ \E outcome \in ProbeOutcomes : ProbeResponse(outcome)
  \/ \E t \in Types, outcome \in PageOutcomes : PageResponse(t, outcome)

SpecProducer == ProdInit /\ [][ProdNext]_vars

(***************************************************************************)
(* Properties of the data producer.                                        *)
(***************************************************************************)
\* the page requests of type t in the order they were issued
PageRequests(t) ==
  SelectSeq(requests, LAMBDA r : r.type = t /\ r.count = PageSize(t))

\* every page of type t was fetched
AllPagesFetched(t) ==
  /\ IsSome(total[t])
  /\ loopState[t] = "resolved"
  /\ Len(results[t]) = Pages(Val(total[t]), PageSize(t))

\* C11: if a probe or page request fails (network error, non-success status,
\* unparsable body, or a page response without features), for either type and
\* under any interleaving of the two page loops, the run has ended with exit
\* code 1 and no output file; the output file is written only after every page
\* of both types was fetched successfully.
C11_FailureAbortsWithoutOutput ==
  /\ reqFailed => /\ prodPc = "exited"
                  /\ exitCode = Some(1)
                  /\ outFile = None
  /\ IsSome(outFile) => /\ ~reqFailed
                        /\ \A t \in Types : AllPagesFetched(t)
                        /\ Val(outFile) = OutContent(results)

\* a page of the county loop fails while the municipality loop, with one page
\* already fetched, still awaits its next page
C11_Witness ==
  /\ reqFailed
  /\ loopState["krs"] = "rejected"
  /\ loopState["gem"] = "awaiting"
  /\ Len(results["gem"]) = 1
  /\ exitCode = Some(1)
  /\ outFile = None

\* C13: for each type with discovered total T and page size c, the pages
\* requested are the start indices 0, c, 2c, ... in this order, page i+1 is
\* requested only after the response of page i arrived, the feature list is
\* the concatenation of the page responses in page order, a finished loop has
\* covered every record index in [0, T) exactly once, however the two loops
\* interleave; and both probes complete before any page is requested.
C13_PagesSequentialAndComplete ==
  /\ \A t \in Types :
       LET c == PageSize(t)
           pr == PageRequests(t)
       IN /\ \A k \in 1..Len(pr) : pr[k].start = (k - 1) * c /\ pr[k].count = c
          /\ Len(pr) \in {Len(results[t]), Len(results[t]) + 1}
          /\ Len(pr) = Len(results[t]) + 1 <=> loopState[t] \in {"awaiting", "rejected"}
          /\ \A k \in 1..Len(results[t]) :
               results[t][k] = ServerPage(srvSize[t], (k - 1) * c, c)
          /\ Len(pr) > 0 => /\ IsSome(total[t])
                            /\ Len(pr) <= Pages(Val(total[t]), c)
          /\ loopState[t] = "resolved" =>
               \A x \in 0..(Val(total[t]) - 1) :
                 Cardinality({k \in 1..Len(pr) :
                                pr[k].start <= x /\ x < pr[k].start + c}) = 1
  /\ \A k \in 1..Len(requests) :
       requests[k].count # ProbeCount =>
         /\ k > 2
         /\ requests[1] = Req("gem", 0, ProbeCount)
         /\ requests[2] = Req("krs", 0, ProbeCount)
         /\ \A t \in Types : IsSome(total[t])

\* both loops fetched two pages and finished, the county loop having asked
\* for its second page before the municipality loop asked for its own
C13_Witness ==
  /\ \A t \in Types : loopState[t] = "resolved" /\ Len(results[t]) = 2
  /\ Len(requests) = 6
  /\ requests[5].type = "krs"
  /\ requests[6].type = "gem"
  /\ IsSome(outFile)

(***************************************************************************)
(* The data producer: population, area and density of one municipality.    *)
(***************************************************************************)
\* a property value of a service record: a number, a string, or neither
RawNumber(n) == [type |-> "number", v |-> n, s |-> <<>>]
RawString(str) == [type |-> "string", v |-> 0, s |-> str]
RawOther == [type |-> "undefined", v |-> 0, s |-> <<>>]

\* the values p.ewz and p.kfl are drawn from
RawValues ==
  { RawOther,
    RawNumber(-3), RawNumber(0), RawNumber(7), RawNumber(1200),
    RawString(<<"1", ",", "2", "0", "0">>), RawString(<<"1", "2">>),
    RawString(<<"0">>), RawString(<<"-", "5">>), RawString(<<>>),
    RawString(<<"x">>) }

\* a JavaScript value of the parse: a finite number, NaN, or null
JsNumber(n) == [kind |-> "number", v |-> n]
JsNaN == [kind |-> "NaN", v |-> 0]
JsNull == [kind |-> "null", v |-> 0]

\* Number.isFinite
IsFiniteJs(x) == x.kind = "number"

\* str.replace(/,/g, '')
RemoveCommas(str) == SelectSeq(str, LAMBDA ch : ch # ",")

DigitValue(ch) == CHOOSE d \in 0..9 : Digits[d + 1] = ch

IsDigit(ch) == \E d \in 0..9 : Digits[d + 1] = ch

RECURSIVE DecimalValue(_)
DecimalValue(str) ==
  IF str = <<>> THEN 0
  ELSE 10 * DecimalValue(SubSeq(str, 1, Len(str) - 1)) + DigitValue(str[Len(str)])

\* Number(str): 0 for the empty string, the value of a decimal numeral with an
\* optional minus sign, NaN for anything else
NumberOfString(str) ==
  IF str = <<>> THEN JsNumber(0)
  ELSE IF \A k \in 1..Len(str) : IsDigit(str[k]) THEN JsNumber(DecimalValue(str))
  ELSE IF /\ str[1] = "-"
          /\ Len(str) > 1
          /\ \A k \in 2..Len(str) : IsDigit(str[k])
       THEN JsNumber(0 - DecimalValue(Tail(str)))
  ELSE JsNaN

\* Number.isFinite(x) ? x : (typeof x === 'string' ? Number(x.replace(/,/g,'')) : null)
ParseField(raw) ==
  IF raw.type = "number" THEN JsNumber(raw.v)
  ELSE IF raw.type = "string" THEN NumberOfString(RemoveCommas(raw.s))
  ELSE JsNull

\* Number.isFinite(x) ? x : null
WrittenNumber(x) == IF IsFiniteJs(x) THEN Some(x.v) ELSE None

\* a producer that divides by any finite area
ProducerDensityAnyArea(pop, area) ==
  IF IsFiniteJs(pop) /\ IsFiniteJs(area) THEN Some(<<pop.v, area.v>>) ELSE None

\* Number.isFinite(pop) && Number.isFinite(area) && area>0 ? pop/area : null;
\* the quotient pop/area is kept as the pair <<pop, area>>
ProducerDensity(pop, area) ==
  IF IsFiniteJs(pop) /\ IsFiniteJs(area) /\ area.v > 0
  THEN Some(<<pop.v, area.v>>)
  ELSE None

\* the properties pop, area_km2 and density of the feature pushed for a record
WrittenProps(ewz, kfl) ==
  LET pop == ParseField(ewz)
      area == ParseField(kfl)
  IN [pop |-> WrittenNumber(pop),
      area_km2 |-> WrittenNumber(area),
      density |-> ProducerDensity(pop, area)]

\* one municipality record of the service, before the loop reaches it
DensInit ==
  /\ AppIdle
  /\ SplitIdle
  /\ ColorIdle
  /\ ProdIdle
  /\ rawEwz \in RawValues
  /\ rawKfl \in RawValues
  /\ written = None

\* the loop body for the record: parse, and push the feature
WriteFeature ==
  /\ written = None
  /\ written' = Some(WrittenProps(rawEwz, rawKfl))
  /\ UNCHANGED <<rawEwz, rawKfl, appVars, splitVars, colorVars, prodVars>>

DensNext == WriteFeature

SpecDensity == DensInit /\ [][DensNext]_vars

\* C12: the written density is the quotient of the written pop and area_km2
\* when both are present and area_km2 is positive, and null in every other
\* case: a value missing or unparsable, or an area of zero or below.
C12_DensityFromWrittenFields ==
  IsSome(written) =>
    LET w == Val(written)
    IN w.density = IF /\ IsSome(w.pop)
                      /\ IsSome(w.area_km2)
                      /\ Val(w.area_km2) > 0
                   THEN Some(<<Val(w.pop), Val(w.area_km2)>>)
                   ELSE None

\* a comma-grouped population string and a positive numeric area
C12_Witness ==
  /\ rawEwz = RawString(<<"1", ",", "2", "0", "0">>)
  /\ rawKfl = RawNumber(7)
  /\ IsSome(written)
  /\ Val(written).pop = Some(1200)
  /\ Val(written).density = Some(<<1200, 7>>)

(***************************************************************************)
(* Properties of the presentation application: loaded data and arrivals.   *)
(***************************************************************************)
\* the municipalities as the fetches delivered them
FetchedGemeinden ==
  IF variant = "leaflet"
  THEN ChunksInCodeOrder({c \in Codes : chunk[c] = "ok"})
  ELSE GemeindenFile(world)

\* C14: the feature objects held in the loaded municipalities and districts
\* collections keep exactly the property values they were loaded with, a
\* missing density included, whatever views were computed from them.
C14_LoadedFeaturesNeverMutated ==
  /\ gemeinden.loaded => gemeinden.features = FetchedGemeinden
  /\ ortsteile.loaded => ortsteile.features = OrtsteileFile(world)

\* C15: once both datasets have arrived, the ranked merge (order and ranks)
\* is the merge of the fetched municipalities followed by the fetched
\* districts, computed in full, whichever of the two loads completed first.
C15_MergeIndependentOfArrivalOrder ==
  (gemeinden.loaded /\ ortsteile.loaded) =>
    /\ firstLoaded \in {"gemeinden", "ortsteile"}
    /\ combined = Combined(variant, FC(FetchedGemeinden),
                           FC(OrtsteileFile(world)))

\* the districts arrived first, and a district has a rank other than the one
\* it had in the merge of the districts alone
C15_Witness ==
  /\ firstLoaded = "ortsteile"
  /\ gemeinden.loaded
  /\ ortsteile.loaded
  /\ gemeinden.features # <<>>
  /\ \E i \in DOMAIN combined :
       \E j \in DOMAIN Combined(variant, NullFC, FC(OrtsteileFile(world))) :
         LET alone == Combined(variant, NullFC, FC(OrtsteileFile(world)))[j]
         IN /\ combined[i].kind = "ortsteil"
            /\ alone.id = combined[i].id
            /\ alone.kind = "ortsteil"
            /\ alone.rank # combined[i].rank

====
